---- MODULE Spec2Model ----
(***************************************************************************)
(* Delete / update mutation lifecycle of redux-all-is-list.                *)
(*                                                                         *)
(* Value encoding.  A JavaScript primitive is the string of its JSON text: *)
(* the number 1 is "1", the empty string is "\"\"", null is "null" and     *)
(* undefined is "undefined".  A JavaScript object is a TLA+ function from  *)
(* its own keys to values ({} is <<>>).  Where a slot can hold either an   *)
(* object or a primitive, the primitive is boxed as [prim |-> text].       *)
(***************************************************************************)
EXTENDS Integers, Sequences, FiniteSets, TLC

\* ------------------------------------------------------------------ bounds
MaxItems == 2   \* entities loaded in items; id MaxItems + 1 is in no entity
MaxOps == 3     \* reducer applications recorded by SpecReducers
MaxCalls == 2   \* invocations of the functions deleteAction/updateAction return

VARIABLES
    state,        \* the list slice: [items, deleting, errors]
    strictMatch,  \* does the match helper throw on a non-object element
    hist,         \* reducer applications so far: [op, arg, threw]
    prev,         \* the slice before the last reducer application
    hasSocket,    \* updateAction's hasSocket option
    calls,        \* one record per invocation
    queue,        \* dispatched delete notifications the store has not folded
    lastFold,     \* the notification the store folded last
    clock         \* what new Date() reads next

vars == <<state, strictMatch, hist, prev, hasSocket, calls, queue, lastFold,
          clock>>

\* ------------------------------------------------------------ value helpers
Prim(text) == [prim |-> text]
Undefined == Prim("undefined")
Null == Prim("null")
EmptyObject == <<>>

IsObject(v) == "prim" \notin DOMAIN v

IdText(n) == CASE n = 1 -> "1" [] n = 2 -> "2" [] n = 3 -> "3"
               [] n = 4 -> "4" [] OTHER -> "5"

Entity(n) == [id |-> IdText(n), name |-> "todo"]

ItemIds == {IdText(n) : n \in 1..MaxItems}
AbsentId == IdText(MaxItems + 1)
Ids == ItemIds \cup {AbsentId}

\* --------------------------------------------------- @mutantlove/m helpers
\* is(source): neither null nor undefined
is(v) == IsObject(v) \/ v.prim \notin {"null", "undefined"}

\* isEmpty(source): null, undefined, "" or a container without elements
isEmpty(v) ==
    IF IsObject(v) THEN DOMAIN v = {}
    ELSE v.prim \in {"null", "undefined", "\"\""}

\* hasKey(key)(source), source an object
hasKey(key, obj) == key \in DOMAIN obj

\* { ...obj, id: value }
SpreadWithId(obj, value) ==
    [k \in DOMAIN obj \cup {"id"} |-> IF k = "id" THEN value ELSE obj[k]]

\* reading .id off an array element while matching: a non-object element has
\* no properties; whether the helper tolerates it is decided by strictMatch
MatchesId(e, id) == IsObject(e) /\ "id" \in DOMAIN e /\ e.id = id
MatchThrows(e) == strictMatch /\ ~IsObject(e)

\* findWith({ id })(list): first element whose id is id, undefined if none
findWith(id, list) ==
    LET hits == {i \in 1..Len(list) : MatchesId(list[i], id)}
        bad == {i \in 1..Len(list) : MatchThrows(list[i])}
        first == CHOOSE i \in hits : \A j \in hits : i <= j
    IN  IF \E b \in bad : \A h \in hits : b < h
        THEN [threw |-> TRUE, value |-> Undefined]
        ELSE IF hits = {} THEN [threw |-> FALSE, value |-> Undefined]
        ELSE [threw |-> FALSE, value |-> list[first]]

\* filterWith({ "!id": id })(list): the elements whose id is not id
KeepsNotId(e, id) ==
    IF IsObject(e) THEN ~MatchesId(e, id) ELSE id # "undefined"

filterWith(id, list) ==
    IF \E i \in 1..Len(list) : MatchThrows(list[i])
    THEN [threw |-> TRUE, value |-> list]
    ELSE [threw |-> FALSE,
          value |-> SelectSeq(list, LAMBDA e : KeepsNotId(e, id))]

\* ---------------------------------------------------------- delete reducers
Threw(st) == [threw |-> TRUE, state |-> st]
Returned(st) == [threw |-> FALSE, state |-> st]

\* variant: a stub { id } is appended instead of the entity found in items
deleteStartReducer_AppendsStub(st, id) ==
    LET deletingItem == findWith(id, st.deleting)
    IN  IF deletingItem.threw THEN Threw(st)
        ELSE IF is(deletingItem.value) THEN Returned(st)
        ELSE Returned([st EXCEPT !.deleting = Append(@, [id |-> id])])

\* variant: the entry is appended without looking at deleting first
deleteStartReducer_NoDedup(st, id) ==
    LET found == findWith(id, st.items)
    IN  IF found.threw THEN Threw(st)
        ELSE Returned([st EXCEPT !.deleting = Append(@, found.value)])

deleteStartReducer(st, id) ==
    LET deletingItem == findWith(id, st.deleting)
        found == findWith(id, st.items)
    IN  IF deletingItem.threw THEN Threw(st)
        ELSE IF is(deletingItem.value) THEN Returned(st)
        ELSE IF found.threw THEN Threw(st)
        ELSE Returned([st EXCEPT !.deleting = Append(@, found.value)])

SetDeleteError(errors, value) ==
    [k \in DOMAIN errors \cup {"delete"} |->
        IF k = "delete" THEN value ELSE errors[k]]

\* variant: an id that is not in items is treated as an error
deleteSuccessReducer_ThrowsOnMissing(st, item) ==
    LET hasId == is(item) /\ IsObject(item) /\ "id" \in DOMAIN item
    IN  IF ~hasId THEN Threw(st)
        ELSE IF ~\E i \in 1..Len(st.items) : MatchesId(st.items[i], item.id)
        THEN Threw(st)
        ELSE LET items == filterWith(item.id, st.items)
                 deleting == filterWith(item.id, st.deleting)
             IN  IF items.threw \/ deleting.threw THEN Threw(st)
                 ELSE Returned([items |-> items.value,
                                deleting |-> deleting.value,
                                errors |-> SetDeleteError(st.errors, Null)])

\* variant: items is filtered with { id } instead of { "!id" }
deleteSuccessReducer_KeepsMatching(st, item) ==
    LET hasId == is(item) /\ IsObject(item) /\ "id" \in DOMAIN item
    IN  IF ~hasId THEN Threw(st)
        ELSE LET deleting == filterWith(item.id, st.deleting)
             IN  IF deleting.threw THEN Threw(st)
                 ELSE Returned([items |-> SelectSeq(st.items,
                                    LAMBDA e : MatchesId(e, item.id)),
                                deleting |-> deleting.value,
                                errors |-> SetDeleteError(st.errors, Null)])

deleteSuccessReducer(st, item) ==
    LET hasId == is(item) /\ IsObject(item) /\ "id" \in DOMAIN item
    IN  IF ~hasId THEN Threw(st)
        ELSE LET items == filterWith(item.id, st.items)
                 deleting == filterWith(item.id, st.deleting)
             IN  IF items.threw \/ deleting.threw THEN Threw(st)
                 ELSE Returned([items |-> items.value,
                                deleting |-> deleting.value,
                                errors |-> SetDeleteError(st.errors, Null)])

\* variant: only errors.delete is set, deleting is left as it was
deleteErrorReducer_KeepsDeleting(st, error) ==
    LET given == IF error = Undefined THEN EmptyObject ELSE error
    IN  Returned([st EXCEPT !.errors = SetDeleteError(@, given)])

deleteErrorReducer(st, error) ==
    LET given == IF error = Undefined THEN EmptyObject ELSE error
    IN  Returned([st EXCEPT !.errors = SetDeleteError(@, given),
                            !.deleting = <<>>])

\* ------------------------------------------------ the reducers on their own
InitItems == {[i \in 1..n |-> Entity(i)] : n \in 0..MaxItems}

InitState(items) == [items |-> items, deleting |-> <<>>, errors |-> EmptyObject]

SampleError ==
    [date |-> 0,
     data |-> [name |-> "\"Error\"", message |-> "\"gone\"",
               status |-> "404", body |-> "\"{}\""]]

\* arguments a caller can hand to the reducers
StartArgs == Ids
SuccessArgs ==
    {[id |-> i] : i \in Ids} \cup {[name |-> "todo"], Null, Undefined}
ErrorArgs == {SampleError, Undefined}

NoCall ==
    [kind |-> "none", pc |-> "idle", id |-> "undefined", data |-> Undefined,
     sent |-> <<>>, apiCalls |-> 0, settled |-> EmptyObject,
     ret |-> EmptyObject, failure |-> "none"]

NoFold == [call |-> 0, type |-> "none", threw |-> FALSE]

InitReducers ==
    /\ \E items \in InitItems : state = InitState(items)
    /\ strictMatch \in BOOLEAN
    /\ hist = <<>>
    /\ prev = state
    /\ hasSocket = FALSE
    /\ calls = [c \in 1..MaxCalls |-> NoCall]
    /\ queue = <<>>
    /\ lastFold = NoFold
    /\ clock = 0

Apply(op, arg, out) ==
    /\ Len(hist) < MaxOps
    /\ prev' = state
    /\ state' = out.state
    /\ hist' = Append(hist, [op |-> op, arg |-> arg, threw |-> out.threw])
    /\ UNCHANGED <<strictMatch, hasSocket, calls, queue, lastFold, clock>>

ReduceStart == \E id \in StartArgs :
    Apply("start", Prim(id), deleteStartReducer(state, id))

ReduceSuccess == \E item \in SuccessArgs :
    Apply("success", item, deleteSuccessReducer(state, item))

ReduceError == \E error \in ErrorArgs :
    Apply("error", error, deleteErrorReducer(state, error))

NextReducers == ReduceStart \/ ReduceSuccess \/ ReduceError

SpecReducers == InitReducers /\ [][NextReducers]_vars

\* ------------------------------------------------- properties of the reducers
CountId(list, id) == Cardinality({i \in 1..Len(list) : MatchesId(list[i], id)})
HasId(list, id) == CountId(list, id) > 0

Last == hist[Len(hist)]
Before == hist[Len(hist) - 1]

\* the last two applications were the same reducer with the same argument and
\* both returned
AppliedTwice(op) ==
    /\ Len(hist) >= 2
    /\ Last.op = op /\ Before.op = op
    /\ Last.arg = Before.arg
    /\ ~Last.threw /\ ~Before.threw

C5_OneEntryPerId ==
    \A id \in Ids : CountId(state.deleting, id) <= 1

C5_Witness ==
    /\ Len(hist) >= 2
    /\ \E i, j \in 1..Len(hist) :
          /\ i < j
          /\ hist[i].op = "start" /\ hist[j].op = "start"
          /\ hist[i].arg = hist[j].arg
          /\ ~hist[i].threw /\ ~hist[j].threw
          /\ CountId(state.deleting, hist[j].arg.prim) = 1

C7_AsStated ==
    (Len(hist) >= 1 /\ Last.op = "error")
    => state.deleting = <<>> /\ state.errors.delete = Last.arg

\* C7: deleteErrorReducer leaves deleting empty, whatever it held; errors.delete
\* is the error it was given, except that an undefined (omitted) error is
\* stored as the empty object.
C7_ErrorClearsDeleting ==
    (Len(hist) >= 1 /\ Last.op = "error")
    => /\ state.deleting = <<>>
       /\ state.errors.delete =
            (IF Last.arg = Undefined THEN EmptyObject ELSE Last.arg)
       /\ state.items = prev.items

C7_Witness ==
    /\ Len(hist) >= 1 /\ Last.op = "error"
    /\ Last.arg = SampleError
    /\ Len(prev.deleting) > 0
    /\ state.deleting = <<>>
    /\ state.errors.delete = SampleError

\* ------------------------------------------------------------ the initiators
\* action types the factories are configured with
ActionStart(kind) == IF kind = "delete" THEN "DELETE_START" ELSE "UPDATE_START"
ActionSuccess == "DELETE_SUCCESS"
ActionEnd == "UPDATE_END"
ActionError(kind) == IF kind = "delete" THEN "DELETE_ERROR" ELSE "UPDATE_ERROR"
DeleteTypes == {"DELETE_START", "DELETE_SUCCESS", "DELETE_ERROR"}
ListName == "\"todos\""

\* what callers pass and what the api settles with
EmptyIds == {"\"\"", "null", "undefined"}
DeleteIds == Ids \cup EmptyIds
UpdateIds == {IdText(1)} \cup EmptyIds
GoodData == [name |-> "\"done\""]
UpdateData == {GoodData, EmptyObject, Null, Undefined}
\* update(id, data) argument pairs: one empty argument at a time, and update()
UpdateArgs ==
    {<<id, GoodData>> : id \in UpdateIds}
        \cup {<<IdText(1), data>> : data \in UpdateData}
        \cup {<<"undefined", Undefined>>}
ApiResults == {[name |-> "todo"], [id |-> IdText(2), name |-> "todo"]}
ApiFailure ==
    [name |-> "\"Error\"", message |-> "\"gone\"", status |-> "404",
     body |-> "\"{}\""]
ApiRejections == {ApiFailure, Undefined, Prim("\"timeout\"")}

\* value.key for a value that is not null or undefined
Get(value, key) ==
    IF IsObject(value) /\ key \in DOMAIN value THEN value[key] ELSE "undefined"

Note(type, payload) == [type |-> type, payload |-> payload]

\* dispatch(note) by invocation c, whose record becomes call
Dispatch(c, call, note) ==
    /\ calls' = [calls EXCEPT ![c] = [call EXCEPT !.sent = Append(@, note)]]
    /\ queue' = IF note.type \in DeleteTypes
                THEN Append(queue, [call |-> c, note |-> note])
                ELSE queue

Free(c) ==
    /\ calls[c].kind = "none"
    /\ IF c = 1 THEN TRUE ELSE calls[c - 1].kind # "none"

Init ==
    /\ state = InitState([i \in 1..MaxItems |-> Entity(i)])
    /\ strictMatch \in BOOLEAN
    /\ hist = <<>>
    /\ prev = state
    /\ hasSocket \in BOOLEAN
    /\ calls = [c \in 1..MaxCalls |-> NoCall]
    /\ queue = <<>>
    /\ lastFold = NoFold
    /\ clock = 0

\* deleteAction(...)(id) up to the await
deleteAction(c, id) ==
    /\ Free(c)
    /\ IF isEmpty(Prim(id))
       THEN /\ calls' = [calls EXCEPT ![c] =
                   [@ EXCEPT !.kind = "delete", !.id = id, !.pc = "rejected",
                             !.failure = "invalid-argument"]]
            /\ UNCHANGED queue
       ELSE Dispatch(c,
                [calls[c] EXCEPT !.kind = "delete", !.id = id,
                                 !.pc = "pending", !.apiCalls = @ + 1],
                Note(ActionStart("delete"), Prim(id)))
    /\ UNCHANGED <<state, strictMatch, hist, prev, hasSocket, lastFold, clock>>

\* variant: the caller is handed the id-normalized payload instead of the raw
\* api result
deleteResolved_ReturnsPayload(c, result) ==
    /\ calls[c].kind = "delete" /\ calls[c].pc = "pending"
    /\ LET payload == SpreadWithId(result, IF hasKey("id", result)
                                           THEN result.id ELSE calls[c].id)
       IN  Dispatch(c,
               [calls[c] EXCEPT !.pc = "returned",
                                !.settled = [resolved |-> result],
                                !.ret = [result |-> payload]],
               Note(ActionSuccess, payload))
    /\ UNCHANGED <<state, strictMatch, hist, prev, hasSocket, lastFold, clock>>

\* the try block after the api resolved with result
deleteResolved(c, result) ==
    /\ calls[c].kind = "delete" /\ calls[c].pc = "pending"
    /\ Dispatch(c,
           [calls[c] EXCEPT !.pc = "returned",
                            !.settled = [resolved |-> result],
                            !.ret = [result |-> result]],
           Note(ActionSuccess,
                SpreadWithId(result, IF hasKey("id", result)
                                     THEN result.id ELSE calls[c].id)))
    /\ UNCHANGED <<state, strictMatch, hist, prev, hasSocket, lastFold, clock>>

\* variant: the error is wrapped once for the notification and once more for
\* the caller
deleteRejected_WrapsTwice(c, error) ==
    /\ calls[c].kind = "delete" /\ calls[c].pc = "pending"
    /\ IF ~is(error)
       THEN /\ calls' = [calls EXCEPT ![c] =
                   [@ EXCEPT !.pc = "rejected", !.failure = "TypeError",
                             !.settled = [rejected |-> error]]]
            /\ UNCHANGED <<queue, clock>>
       ELSE LET data == [name |-> Get(error, "name"),
                         message |-> Get(error, "message"),
                         status |-> Get(error, "status"),
                         body |-> Get(error, "body")]
            IN  /\ Dispatch(c,
                       [calls[c] EXCEPT
                            !.pc = "returned",
                            !.settled = [rejected |-> error],
                            !.ret = [error |-> [date |-> clock + 1,
                                                data |-> data]]],
                       Note(ActionError("delete"),
                            [date |-> clock, data |-> data]))
                /\ clock' = clock + 2
    /\ UNCHANGED <<state, strictMatch, hist, prev, hasSocket, lastFold>>

\* the catch block after the api rejected with error
deleteRejected(c, error) ==
    /\ calls[c].kind = "delete" /\ calls[c].pc = "pending"
    /\ IF ~is(error)
       THEN \* error.name of null or undefined throws inside the catch block
            /\ calls' = [calls EXCEPT ![c] =
                   [@ EXCEPT !.pc = "rejected", !.failure = "TypeError",
                             !.settled = [rejected |-> error]]]
            /\ UNCHANGED <<queue, clock>>
       ELSE LET stateError ==
                    [date |-> clock,
                     data |-> [name |-> Get(error, "name"),
                               message |-> Get(error, "message"),
                               status |-> Get(error, "status"),
                               body |-> Get(error, "body")]]
            IN  /\ Dispatch(c,
                       [calls[c] EXCEPT !.pc = "returned",
                                        !.settled = [rejected |-> error],
                                        !.ret = [error |-> stateError]],
                       Note(ActionError("delete"), stateError))
                /\ clock' = clock + 1
    /\ UNCHANGED <<state, strictMatch, hist, prev, hasSocket, lastFold>>

\* variant: the start notification goes out before data is looked at
updateAction_ChecksDataLate(c, id, data) ==
    /\ Free(c)
    /\ IF isEmpty(Prim(id))
       THEN /\ calls' = [calls EXCEPT ![c] =
                   [@ EXCEPT !.kind = "update", !.id = id, !.data = data,
                             !.pc = "threw", !.failure = "invalid-argument"]]
            /\ UNCHANGED queue
       ELSE Dispatch(c,
                [calls[c] EXCEPT
                     !.kind = "update", !.id = id, !.data = data,
                     !.pc = IF isEmpty(data) THEN "threw" ELSE "scheduled",
                     !.failure = IF isEmpty(data) THEN "invalid-argument"
                                 ELSE "none"],
                Note(ActionStart("update"), [id |-> id, data |-> data]))
    /\ UNCHANGED <<state, strictMatch, hist, prev, hasSocket, lastFold, clock>>

\* updateAction(...)(id, data) up to the returned promise chain
updateAction(c, id, data) ==
    /\ Free(c)
    /\ IF isEmpty(Prim(id)) \/ isEmpty(data)
       THEN /\ calls' = [calls EXCEPT ![c] =
                   [@ EXCEPT !.kind = "update", !.id = id, !.data = data,
                             !.pc = "threw", !.failure = "invalid-argument"]]
            /\ UNCHANGED queue
       ELSE Dispatch(c,
                [calls[c] EXCEPT !.kind = "update", !.id = id, !.data = data,
                                 !.pc = "scheduled"],
                Note(ActionStart("update"), [id |-> id, data |-> data]))
    /\ UNCHANGED <<state, strictMatch, hist, prev, hasSocket, lastFold, clock>>

\* .then(() => api(id, data, ...rest))
updateCallApi(c) ==
    /\ calls[c].kind = "update" /\ calls[c].pc = "scheduled"
    /\ calls' = [calls EXCEPT ![c] =
            [@ EXCEPT !.pc = "pending", !.apiCalls = @ + 1]]
    /\ UNCHANGED <<state, strictMatch, hist, prev, hasSocket, queue, lastFold,
                   clock>>

\* variant: the end notification is dispatched whatever hasSocket says
updateResolved_AlwaysDispatches(c, result) ==
    /\ calls[c].kind = "update" /\ calls[c].pc = "pending"
    /\ Dispatch(c,
           [calls[c] EXCEPT !.pc = "returned",
                            !.settled = [resolved |-> result],
                            !.ret = [result |-> result]],
           Note(ActionEnd,
                [listName |-> ListName,
                 item |-> SpreadWithId(result,
                              IF hasKey("id", result)
                              THEN result.id ELSE calls[c].id),
                 onChange |-> "onChange"]))
    /\ UNCHANGED <<state, strictMatch, hist, prev, hasSocket, lastFold, clock>>

\* .then(result => ...)
updateResolved(c, result) ==
    /\ calls[c].kind = "update" /\ calls[c].pc = "pending"
    /\ LET done == [calls[c] EXCEPT !.pc = "returned",
                                    !.settled = [resolved |-> result],
                                    !.ret = [result |-> result]]
       IN  IF ~hasSocket
           THEN Dispatch(c, done,
                    Note(ActionEnd,
                         [listName |-> ListName,
                          item |-> SpreadWithId(result,
                                       IF hasKey("id", result)
                                       THEN result.id ELSE calls[c].id),
                          onChange |-> "onChange"]))
           ELSE /\ calls' = [calls EXCEPT ![c] = done]
                /\ UNCHANGED queue
    /\ UNCHANGED <<state, strictMatch, hist, prev, hasSocket, lastFold, clock>>

\* .catch(error => ...)
updateRejected(c, error) ==
    /\ calls[c].kind = "update" /\ calls[c].pc = "pending"
    /\ IF ~IsObject(error)
       THEN \* error.date = ... on a primitive throws in strict (module) code
            /\ calls' = [calls EXCEPT ![c] =
                   [@ EXCEPT !.pc = "rejected", !.failure = "TypeError",
                             !.settled = [rejected |-> error]]]
            /\ UNCHANGED <<queue, clock>>
       ELSE LET dated == [k \in DOMAIN error \cup {"date"} |->
                            IF k = "date" THEN clock ELSE error[k]]
            IN  /\ Dispatch(c,
                       [calls[c] EXCEPT !.pc = "returned",
                                        !.settled = [rejected |-> error],
                                        !.ret = [error |-> dated]],
                       Note(ActionError("update"), dated))
                /\ clock' = clock + 1
    /\ UNCHANGED <<state, strictMatch, hist, prev, hasSocket, lastFold>>

\* the store hands the oldest pending delete notification to its reducer; a
\* reducer that throws leaves the slice as it was
Reduce(st, note) ==
    CASE note.type = "DELETE_START" -> deleteStartReducer(st, note.payload.prim)
      [] note.type = "DELETE_SUCCESS" -> deleteSuccessReducer(st, note.payload)
      [] note.type = "DELETE_ERROR" -> deleteErrorReducer(st, note.payload)

storeFold ==
    /\ queue # <<>>
    /\ LET head == Head(queue)
           out == Reduce(state, head.note)
       IN  /\ state' = out.state
           /\ prev' = state
           /\ lastFold' = [call |-> head.call, type |-> head.note.type,
                           threw |-> out.threw]
    /\ queue' = Tail(queue)
    /\ UNCHANGED <<strictMatch, hist, hasSocket, calls, clock>>

DeleteCalled == \E c \in 1..MaxCalls, id \in DeleteIds : deleteAction(c, id)
DeleteApiResolved ==
    \E c \in 1..MaxCalls, result \in ApiResults : deleteResolved(c, result)
DeleteApiRejected ==
    \E c \in 1..MaxCalls, error \in ApiRejections : deleteRejected(c, error)
UpdateCalled ==
    \E c \in 1..MaxCalls, args \in UpdateArgs :
        updateAction(c, args[1], args[2])
UpdateApiCalled == \E c \in 1..MaxCalls : updateCallApi(c)
UpdateApiResolved ==
    \E c \in 1..MaxCalls, result \in ApiResults : updateResolved(c, result)
UpdateApiRejected ==
    \E c \in 1..MaxCalls, error \in ApiRejections : updateRejected(c, error)

Next ==
    \/ DeleteCalled
    \/ DeleteApiResolved
    \/ DeleteApiRejected
    \/ UpdateCalled
    \/ UpdateApiCalled
    \/ UpdateApiResolved
    \/ UpdateApiRejected
    \/ storeFold

Spec == Init /\ [][Next]_vars

\* ---------------------------------------------- properties of the initiators
Calls == 1..MaxCalls
Resolved(c) == "resolved" \in DOMAIN calls[c].settled
Rejected(c) == "rejected" \in DOMAIN calls[c].settled
SentTypes(c) == [i \in 1..Len(calls[c].sent) |-> calls[c].sent[i].type]
Queued(c) == {i \in 1..Len(queue) : queue[i].call = c}

\* C1: a delete invocation with a non-empty id whose api call resolved has
\* returned {result} with the very value the api resolved with, and has
\* dispatched exactly two notifications: start with the id as payload, then
\* success; it has dispatched no error notification.
C1_DeleteResolvedLifecycle ==
    \A c \in Calls :
        (calls[c].kind = "delete" /\ Resolved(c)) =>
            /\ calls[c].pc = "returned"
            /\ calls[c].ret = [result |-> calls[c].settled.resolved]
            /\ SentTypes(c) = <<"DELETE_START", "DELETE_SUCCESS">>
            /\ calls[c].sent[1].payload = Prim(calls[c].id)

C1_Witness ==
    \E c \in Calls :
        /\ calls[c].kind = "delete" /\ Resolved(c)
        /\ calls[c].id = IdText(1)
        /\ calls[c].ret = [result |-> [name |-> "todo"]]
        /\ Len(calls[c].sent) = 2

\* C2: a delete invocation whose api call rejected with a failure (anything
\* but null or undefined) has returned {error} whose data is the name,
\* message, status and body of the rejection, and the payload of its error
\* notification is the object it returned as error.
C2_DeleteRejectedSameError ==
    \A c \in Calls :
        (calls[c].kind = "delete" /\ Rejected(c)
            /\ is(calls[c].settled.rejected)) =>
            /\ calls[c].pc = "returned"
            /\ DOMAIN calls[c].ret = {"error"}
            /\ calls[c].ret.error.data =
                   [name |-> Get(calls[c].settled.rejected, "name"),
                    message |-> Get(calls[c].settled.rejected, "message"),
                    status |-> Get(calls[c].settled.rejected, "status"),
                    body |-> Get(calls[c].settled.rejected, "body")]
            /\ SentTypes(c) = <<"DELETE_START", "DELETE_ERROR">>
            /\ calls[c].sent[2].payload = calls[c].ret.error

C2_Witness ==
    \E c \in Calls :
        /\ calls[c].kind = "delete" /\ Rejected(c)
        /\ calls[c].settled.rejected = ApiFailure
        /\ calls[c].ret.error.data = ApiFailure
        /\ calls[c].sent[2].payload = calls[c].ret.error

\* C3: an invocation of delete with an empty id, or of update with an empty
\* id or empty data, has failed with the invalid-argument error, has
\* dispatched no notification and has not called the api.
BadArguments(c) ==
    \/ calls[c].kind = "delete" /\ isEmpty(Prim(calls[c].id))
    \/ calls[c].kind = "update"
          /\ (isEmpty(Prim(calls[c].id)) \/ isEmpty(calls[c].data))

C3_PreconditionBeforeEffects ==
    \A c \in Calls :
        BadArguments(c) =>
            /\ calls[c].pc \in {"threw", "rejected"}
            /\ calls[c].failure = "invalid-argument"
            /\ calls[c].sent = <<>>
            /\ Queued(c) = {}
            /\ calls[c].apiCalls = 0

C3_Witness ==
    /\ calls[1].kind = "delete" /\ calls[1].id = "null"
    /\ calls[1].failure = "invalid-argument"
    /\ calls[MaxCalls].kind = "update" /\ calls[MaxCalls].id = IdText(1)
    /\ calls[MaxCalls].data = EmptyObject
    /\ calls[MaxCalls].failure = "invalid-argument"
    /\ queue = <<>>

\* C8: an update invocation whose api call resolved has returned {result}
\* with the raw api result; with hasSocket it has dispatched the start
\* notification only, without hasSocket the start notification and then
\* exactly one end notification.
C8_EndIffNoSocket ==
    \A c \in Calls :
        (calls[c].kind = "update" /\ Resolved(c)) =>
            /\ calls[c].pc = "returned"
            /\ calls[c].ret = [result |-> calls[c].settled.resolved]
            /\ SentTypes(c) = IF hasSocket THEN <<"UPDATE_START">>
                               ELSE <<"UPDATE_START", "UPDATE_END">>

C8_Witness ==
    \E c \in Calls :
        /\ calls[c].kind = "update" /\ Resolved(c)
        /\ hasSocket
        /\ calls[c].ret = [result |-> [id |-> IdText(2), name |-> "todo"]]
        /\ SentTypes(c) = <<"UPDATE_START">>

\* C9: an invocation that passed its preconditions never throws or rejects:
\* when its api call rejected, whatever the rejection value, it has returned
\* {error} and dispatched one error notification.
C9_NeverRejectsAfterPreconditions ==
    \A c \in Calls :
        (calls[c].kind # "none" /\ ~BadArguments(c)) =>
            /\ calls[c].pc \notin {"threw", "rejected"}
            /\ Rejected(c) =>
                  /\ calls[c].pc = "returned"
                  /\ DOMAIN calls[c].ret = {"error"}
                  /\ Len(calls[c].sent) = 2
                  /\ calls[c].sent[2].type = ActionError(calls[c].kind)

\* C10: once the store has folded the success notification of a delete
\* invocation for id X (its start notification was folded before), X is in
\* neither items nor deleting and errors.delete is null, whatever the api
\* resolved with.
C10_DeletedEntityGone ==
    (lastFold.type = "DELETE_SUCCESS" /\ ~lastFold.threw) =>
        /\ ~HasId(state.items, calls[lastFold.call].id)
        /\ ~HasId(state.deleting, calls[lastFold.call].id)
        /\ state.errors.delete = Null

\* the object an update's api rejected with, after error.date was assigned
Dated(error, date) ==
    [k \in DOMAIN error \cup {"date"} |-> IF k = "date" THEN date ELSE error[k]]

\* C11: an update invocation whose api call rejected has dispatched exactly
\* two notifications, start with {id, data} as payload and then error, and
\* no end notification; the payload of the error notification, the error it
\* returned and the object the api rejected with are the same object, which
\* carries a date field.
C11_UpdateRejectedSameObject ==
    \A c \in Calls :
        (calls[c].kind = "update" /\ Rejected(c)) =>
            /\ SentTypes(c) = <<"UPDATE_START", "UPDATE_ERROR">>
            /\ calls[c].sent[1].payload =
                   [id |-> calls[c].id, data |-> calls[c].data]
            /\ DOMAIN calls[c].ret = {"error"}
            /\ calls[c].sent[2].payload = calls[c].ret.error
            /\ IsObject(calls[c].settled.rejected)
            /\ "date" \in DOMAIN calls[c].ret.error
            /\ calls[c].ret.error =
                   Dated(calls[c].settled.rejected, calls[c].ret.error.date)

\* C13: an invocation that passed its preconditions dispatches its start
\* notification before it calls the api, calls the api exactly once, and
\* once the api call has settled it has dispatched exactly one terminal
\* notification, success (end) or error and never both; an update with
\* hasSocket whose api call resolved has dispatched none.
Terminals(c) ==
    {i \in 1..Len(calls[c].sent) :
        calls[c].sent[i].type # ActionStart(calls[c].kind)}

TerminalsDue(c) ==
    IF calls[c].kind = "update" /\ hasSocket /\ Resolved(c) THEN 0 ELSE 1

C13_Lifecycle ==
    \A c \in Calls :
        (calls[c].kind # "none" /\ ~BadArguments(c)) =>
            /\ Len(calls[c].sent) >= 1
            /\ calls[c].sent[1].type = ActionStart(calls[c].kind)
            /\ calls[c].apiCalls <= 1
            /\ (Resolved(c) \/ Rejected(c)) =>
                  /\ calls[c].apiCalls = 1
                  /\ Cardinality(Terminals(c)) = TerminalsDue(c)
            /\ ~(Resolved(c) \/ Rejected(c)) => Terminals(c) = {}

\* ------------------------------------------------- concurrent invocations
\* the slice the store starts from
LoadedState == InitState([i \in 1..MaxItems |-> Entity(i)])

\* the store folding a sequence of delete notifications, oldest first
RECURSIVE FoldNotes(_, _)
FoldNotes(st, notes) ==
    IF notes = <<>> THEN st
    ELSE FoldNotes(Reduce(st, Head(notes)).state, Tail(notes))

\* the delete notifications of invocations 1..n, one invocation after the
\* other, each invocation's notifications in the order it dispatched them
RECURSIVE NotesInCallOrder(_)
NotesInCallOrder(n) ==
    IF n = 0 THEN <<>>
    ELSE NotesInCallOrder(n - 1) \o
         (IF calls[n].kind = "delete" THEN calls[n].sent ELSE <<>>)

InFlight(c) == calls[c].pc \in {"scheduled", "pending"}
Quiescent == queue = <<>> /\ \A c \in Calls : ~InFlight(c)

\* C14: when the invocations have completed and the store has folded all of
\* their notifications, the slice is the one the store reaches by folding the
\* same notifications one invocation after the other: the arrival order of
\* the notifications of concurrent delete invocations does not show in the
\* final items, deleting and errors.delete.
C14_ArrivalOrderIrrelevant ==
    Quiescent => state = FoldNotes(LoadedState, NotesInCallOrder(MaxCalls))

\* how many of invocation c's delete notifications the store has folded
Folded(c) == Len(calls[c].sent) - Cardinality(Queued(c))
Started(c) == calls[c].kind = "delete" /\ ~BadArguments(c)

\* C15: two delete invocations for the id of the same entity, in flight at the
\* same time, have both dispatched a start notification and both called the
\* api; once both start notifications are folded (and no terminal notification
\* of either is), deleting holds exactly one entry for that id; once both
\* have resolved and all their notifications are folded, the id is in neither
\* items nor deleting.
C15_SameIdTwice ==
    \A c1, c2 \in Calls :
        (/\ c1 < c2
         /\ Started(c1) /\ Started(c2)
         /\ calls[c1].id = calls[c2].id
         /\ calls[c1].id \in ItemIds) =>
            /\ calls[c1].sent[1] = Note("DELETE_START", Prim(calls[c1].id))
            /\ calls[c2].sent[1] = Note("DELETE_START", Prim(calls[c2].id))
            /\ calls[c1].apiCalls = 1 /\ calls[c2].apiCalls = 1
            /\ (Folded(c1) = 1 /\ Folded(c2) = 1
                    /\ lastFold.call \in {c1, c2} /\ ~lastFold.threw) =>
                   CountId(state.deleting, calls[c1].id) = 1
            /\ (Resolved(c1) /\ Resolved(c2)
                    /\ Folded(c1) = 2 /\ Folded(c2) = 2) =>
                   /\ ~HasId(state.items, calls[c1].id)
                   /\ ~HasId(state.deleting, calls[c1].id)

\* C16: right after the store folded the error notification of a delete
\* invocation, deleting is empty, also while a delete invocation for another
\* entity is still in flight with its start notification folded: that
\* entity is being deleted and has no entry in deleting.
C16_ErrorClearsInFlightDeletes ==
    lastFold.type = "DELETE_ERROR" =>
        /\ state.deleting = <<>>
        /\ \A c \in Calls :
              (Started(c) /\ InFlight(c) /\ Folded(c) = 1) =>
                  ~HasId(state.deleting, calls[c].id)

C16_Witness ==
    /\ lastFold.type = "DELETE_ERROR"
    /\ \E c \in Calls :
          /\ c # lastFold.call
          /\ Started(c) /\ InFlight(c) /\ Folded(c) = 1
          /\ calls[c].id \in ItemIds
          /\ calls[c].id # calls[lastFold.call].id
          /\ HasId(prev.deleting, calls[c].id)
          /\ HasId(state.items, calls[c].id)
          /\ ~HasId(state.deleting, calls[c].id)

\* ----------------------------------------- more properties of the reducers
\* C17: no delete reducer adds, reorders or modifies entities of items:
\* deleteStartReducer and deleteErrorReducer (and a reducer that throws) leave
\* items as it was, deleteSuccessReducer removes exactly the entities whose id
\* is item.id and keeps the others in their order; so the ids of items stay
\* unique.
C17_ItemsFrame ==
    /\ \A id \in Ids : CountId(state.items, id) <= 1
    /\ Len(hist) >= 1 =>
          IF Last.op = "success" /\ ~Last.threw
          THEN state.items =
                   SelectSeq(prev.items, LAMBDA e : e.id # Last.arg.id)
          ELSE state.items = prev.items

C17_Witness ==
    /\ Len(hist) >= 2
    /\ Last.op = "success" /\ ~Last.threw
    /\ Before.op = "start" /\ ~Before.threw
    /\ Len(prev.items) = MaxItems
    /\ Len(state.items) = MaxItems - 1
    /\ ~HasId(state.items, Last.arg.id)
    /\ \A id \in ItemIds \ {Last.arg.id} : HasId(state.items, id)

InItems(entry) == \E j \in 1..Len(state.items) : state.items[j] = entry

\* C18 as stated: every entry of deleting is an entity that is currently in
\* items, also after deleteStartReducer was applied with an id that no entity
\* of items has.
C18_AsStated ==
    \A i \in 1..Len(state.deleting) :
        IsObject(state.deleting[i]) /\ InItems(state.deleting[i])

\* C18: every entry of deleting is either an entity that is currently in
\* items or the not-found value (undefined) that deleteStartReducer appended
\* for an id that no entity of items had.
C18_DeletingSubsetOrNotFound ==
    \A i \in 1..Len(state.deleting) :
        IF IsObject(state.deleting[i])
        THEN InItems(state.deleting[i])
        ELSE /\ state.deleting[i] = Undefined
             /\ \E k \in 1..Len(hist) :
                   /\ hist[k].op = "start" /\ ~hist[k].threw
                   /\ ~HasId(state.items, hist[k].arg.prim)

C18_Witness ==
    /\ Len(hist) >= 2
    /\ Last.op = "start" /\ ~Last.threw /\ Last.arg = Prim(AbsentId)
    /\ Len(state.deleting) = 2
    /\ state.deleting[1] = Entity(1)
    /\ state.deleting[2] = Undefined
    /\ InItems(Entity(1))

\* --------------------------------------------------------------- quiescence
\* C19: once every delete invocation that was started has completed and the
\* store has folded all of their notifications, deleting is empty, whatever
\* ids were requested and whatever the api settled with.
C19_QuiescentDeletingEmpty ==
    (Quiescent /\ \E c \in Calls : Started(c)) => state.deleting = <<>>

\* ----------------------------------------------------------------- progress
\* the api call of invocation c settles and the invocation resumes
Settle(c) ==
    \/ \E result \in ApiResults : deleteResolved(c, result)
    \/ \E error \in ApiRejections : deleteRejected(c, error)
    \/ \E result \in ApiResults : updateResolved(c, result)
    \/ \E error \in ApiRejections : updateRejected(c, error)

\* every api call eventually settles, the promise jobs of an invocation are
\* run, and the store folds what was dispatched
FairSpec ==
    /\ Spec
    /\ \A c \in 1..MaxCalls : WF_vars(Settle(c)) /\ WF_vars(updateCallApi(c))
    /\ WF_vars(storeFold)

ReturnedValue(c) ==
    /\ calls[c].pc = "returned"
    /\ DOMAIN calls[c].ret \in {{"result"}, {"error"}}
    /\ Cardinality(Terminals(c)) = TerminalsDue(c)

\* C20: when every api call eventually settles, an invocation that dispatched
\* its start notification eventually has dispatched its terminal notification
\* (where one is due) and returned {result} or {error}; as long as its api
\* call has not settled it has dispatched no terminal notification.
C20_EventuallyTerminal ==
    /\ \A c \in Calls : (Len(calls[c].sent) >= 1) ~> ReturnedValue(c)
    /\ [](\A c \in Calls : InFlight(c) => Terminals(c) = {})
====
